---- MODULE Spec2Model ----
(***************************************************************************)
(* A model of imgcreate/fs.py: the Disk hierarchy (RawDisk, LoopbackDisk,  *)
(* SparseLoopbackDisk), the Mount hierarchy (BindChrootMount, DiskMount,   *)
(* ExtDiskMount), DeviceMapperSnapshot and create_image_minimizer.         *)
(*                                                                         *)
(* The program is single threaded and every operation is a blocking call.  *)
(* A call is one action.  The exit status (and output) of every external   *)
(* command the call runs is an input of the action, and the kernel's loop  *)
(* devices, device-mapper nodes, mount table and the files are part of the *)
(* state.  Each operation of the source is an operator that takes the      *)
(* state as a record ("bundle") and returns the state it leaves, with the  *)
(* exception it raised (exc), the value it returned (ret) and the external *)
(* commands it issued (cmds).                                              *)
(***************************************************************************)
EXTENDS Integers, Sequences, FiniteSets, TLC

VARIABLES
    disks,      \* [DiskIds -> [kind, device, size]]: the Disk objects
    snap,       \* DeviceMapperSnapshot: [name, created]
    mnt,        \* the Mount object: [cls, mounted, rmdir, rmmountdir]
    loops,      \* kernel: loop device -> the Disk whose file it is bound to, or Free
    dm,         \* kernel: the device-mapper nodes that exist
    files,      \* file system: DiskId -> [exists, len, fs] of the Disk's lofile
    mountdir,   \* file system: the mount point directory exists
    kmount,     \* kernel: a filesystem is mounted at the mount point
    last        \* the last call: [op, arg, exc, ret, cmds, ...] and the state before it

vars == <<disks, snap, mnt, loops, dm, files, mountdir, kmount, last>>

----------------------------------------------------------------------------
(* Bounds of the model *)

\* loop devices the kernel offers: /dev/loop0 .. /dev/loop(MaxLoops-1)
MaxLoops == 3
\* values random.randint can give the snapshot name
MaxNames == 2
\* largest sector count a dmsetup status line reports
MaxUsed == 2
\* largest size, in bytes, a caller asks of a mounted Disk's backing file
MaxSize == 3
\* the blocksize an ExtDiskMount is constructed with
BlockSize == 1

(* Program constants *)

\* the COW file's size: 64L * 1024L * 1024L
CowSize == 67108864
\* bytes per sector in get_cow_used
SectorSize == 512

\* None, where the source has a device, a name, a size or a return value
None == -1
\* a loop device bound to no file
Free == "free"
\* the block device of a RawDisk
RawDev == MaxLoops
NoExc == "none"

Loops == 0 .. (MaxLoops - 1)
Names == 1 .. MaxNames
DiskIds == {"img", "cow", "mdisk"}
Kinds == {"raw", "loop", "sparse"}

Min(S) == CHOOSE x \in S : \A y \in S : x <= y

----------------------------------------------------------------------------
(* The bundle the operations thread.  Besides the state it holds what the  *)
(* call did: the commands it issued (cmds), the exception it raised (exc), *)
(* its return value (ret), the loop devices it bound (bound), the          *)
(* device-mapper nodes it made (made) and, for create_image_minimizer, the *)
(* exception that was propagating when its finally clause ran (orig).      *)

Bundle ==
    [disks |-> disks, snap |-> snap, mnt |-> mnt, loops |-> loops, dm |-> dm,
     files |-> files, mountdir |-> mountdir, kmount |-> kmount,
     cmds |-> <<>>, exc |-> NoExc, ret |-> None,
     bound |-> {}, made |-> {}, orig |-> NoExc]

\* The exit statuses of an external command: 0 or not.
RC == {0, 1}

\* An external command is issued (subprocess.call / subprocess.Popen) and
\* exits with status rc.
Cmd(b, c, rc) == [b EXCEPT !.cmds = Append(@, [cmd |-> c, rc |-> rc, ext |-> TRUE])]

\* The exit statuses of the commands a call may run, one field per command
\* (for the snapshot's two Disks, per Disk), all 0.
AllOk ==
    [findImg |-> 0, bindImg |-> 0, findCow |-> 0, bindCow |-> 0,
     dmCreate |-> 0, dmRemove |-> 0, detCow |-> 0, detImg |-> 0,
     fsckPre |-> 0, e2image |-> 0, resize |-> 0, fsckPost |-> 0, squash |-> 0,
     find |-> 0, bind |-> 0, detach |-> 0, mkfs |-> 0, tune |-> 0,
     mount |-> 0, umount |-> 0, rmdir |-> 0]

\* A file operation of the os module (open/write, ftruncate, unlink, makedirs,
\* rmdir): no external command, logged for the order of the steps.
Sys(b, c, rc) == [b EXCEPT !.cmds = Append(@, [cmd |-> c, rc |-> rc, ext |-> FALSE])]

\* The external commands a call issued.
External(cs) == {i \in 1 .. Len(cs) : cs[i].ext}

\* The commands of that name a call issued, and those of them that failed.
Issued(cs, c) == {i \in 1 .. Len(cs) : cs[i].cmd = c}

Failed(cs, c) == {i \in Issued(cs, c) : cs[i].rc # 0}

\* raise e
Raise(b, e) == [b EXCEPT !.exc = e]

\* return v
Return(b, v) == [b EXCEPT !.ret = v]

Ok(b) == b.exc = NoExc

\* F of the value of v: v is evaluated once, however often F uses it.
With(v, F(_)) == CHOOSE r \in {F(x) : x \in {v}} : TRUE

\* Statements in sequence: F runs on what v leaves unless v raised.
Then(v, F(_)) == With(v, LAMBDA x : IF Ok(x) THEN F(x) ELSE x)

FreeLoops(b) == {l \in Loops : b.loops[l] = Free}

\* The state the call leaves, and what the call was.
Commit(b, op, arg) ==
    /\ disks' = b.disks
    /\ snap' = b.snap
    /\ mnt' = b.mnt
    /\ loops' = b.loops
    /\ dm' = b.dm
    /\ files' = b.files
    /\ mountdir' = b.mountdir
    /\ kmount' = b.kmount
    /\ last' = [op |-> op, arg |-> arg, exc |-> b.exc, ret |-> b.ret,
                cmds |-> b.cmds, bound |-> b.bound, made |-> b.made,
                orig |-> b.orig,
                preDisks |-> disks, preSnap |-> snap, preMnt |-> mnt,
                preFiles |-> files]

----------------------------------------------------------------------------
(* Disk hierarchy *)

\* SparseLoopbackDisk.expand(create, size): os.open fails (OSError) on a
\* missing file unless O_CREAT is set; one byte is written at offset size,
\* so the file is at least size + 1 bytes long afterwards.
SparseLoopbackDisk_expand(b, d, create, size) ==
    LET sz == IF size = None THEN b.disks[d].size ELSE size
        f == b.files[d]
    IN  IF ~f.exists /\ ~create
        THEN Raise(Sys(b, "expand", 1), "OSError")
        ELSE [Sys(b, "expand", 0) EXCEPT !.files[d] =
                [exists |-> TRUE,
                 len |-> IF f.exists /\ f.len > sz + 1 THEN f.len ELSE sz + 1,
                 fs |-> f.exists /\ f.fs]]

\* SparseLoopbackDisk.truncate(size): os.ftruncate sets the length.
SparseLoopbackDisk_truncate(b, d, size) ==
    LET sz == IF size = None THEN b.disks[d].size ELSE size
        f == b.files[d]
    IN  IF ~f.exists
        THEN Raise(Sys(b, "truncate", 1), "OSError")
        ELSE [Sys(b, "truncate", 0) EXCEPT !.files[d].len = sz]

\* LoopbackDisk.create as it would be without "if self.device is not None:
\* return": C7 must tell it from the code.
LoopbackDisk_create_Unguarded(b, d, rcFind, rcBind) ==
    LET returncode == IF FreeLoops(b) = {} THEN 1 ELSE rcFind
        rc == IF b.files[d].exists THEN rcBind ELSE 1
        b1 == Cmd(b, "losetup -f", returncode)
    IN  IF returncode # 0
        THEN Raise(b1, "MountError")
        ELSE LET device == Min(FreeLoops(b))
                 b2 == Cmd(b1, "losetup", rc)
             IN  IF rc # 0
                 THEN Raise(b2, "MountError")
                 ELSE [b2 EXCEPT !.loops[device] = d,
                                 !.bound = @ \cup {device},
                                 !.disks[d].device = device]

\* LoopbackDisk.create: losetup -f, then losetup DEVICE FILE.  rcFind and
\* rcBind are the two commands' exit statuses; losetup -f cannot succeed with
\* no free device, nor the binding with no file.
LoopbackDisk_create(b, d, rcFind, rcBind) ==
    IF b.disks[d].device # None
    THEN b
    ELSE LET returncode == IF FreeLoops(b) = {} THEN 1 ELSE rcFind
             rc == IF b.files[d].exists THEN rcBind ELSE 1
             b1 == Cmd(b, "losetup -f", returncode)
         IN  IF returncode # 0
             THEN Raise(b1, "MountError")
             ELSE LET device == Min(FreeLoops(b))
                      b2 == Cmd(b1, "losetup", rc)
                  IN  IF rc # 0
                      THEN Raise(b2, "MountError")
                      ELSE [b2 EXCEPT !.loops[device] = d,
                                      !.bound = @ \cup {device},
                                      !.disks[d].device = device]

\* LoopbackDisk.cleanup: losetup -d; its exit status is dropped and the
\* device is forgotten either way.
LoopbackDisk_cleanup(b, d, rcDetach) ==
    IF b.disks[d].device = None
    THEN b
    ELSE LET device == b.disks[d].device
             b1 == Cmd(b, "losetup -d", rcDetach)
             b2 == IF rcDetach = 0 THEN [b1 EXCEPT !.loops[device] = Free] ELSE b1
         IN  [b2 EXCEPT !.disks[d].device = None]

\* SparseLoopbackDisk.create: expand(create = True), then LoopbackDisk.create.
SparseLoopbackDisk_create(b, d, rcFind, rcBind) ==
    LET b1 == SparseLoopbackDisk_expand(b, d, TRUE, None)
    IN  IF Ok(b1) THEN LoopbackDisk_create(b1, d, rcFind, rcBind) ELSE b1

\* disk.create() by the Disk's class; Disk.create (RawDisk) is pass.
Disk_create(b, d, rcFind, rcBind) ==
    CASE b.disks[d].kind = "raw" -> b
      [] b.disks[d].kind = "loop" -> LoopbackDisk_create(b, d, rcFind, rcBind)
      [] b.disks[d].kind = "sparse" -> SparseLoopbackDisk_create(b, d, rcFind, rcBind)

\* disk.cleanup() by the Disk's class; Disk.cleanup (RawDisk) is pass.
Disk_cleanup(b, d, rcDetach) ==
    IF b.disks[d].kind = "raw" THEN b ELSE LoopbackDisk_cleanup(b, d, rcDetach)

\* RawDisk.fixed / LoopbackDisk.fixed
Disk_fixed(b, d) == b.disks[d].kind = "raw"

\* RawDisk.exists / LoopbackDisk.exists
Disk_exists(b, d) == b.disks[d].kind = "raw" \/ b.files[d].exists

----------------------------------------------------------------------------
(* The module's functions over external tools *)

\* mksquashfs(in_img, out_img): a nonzero exit raises SquashfsError.
mksquashfs(b, ret) ==
    LET b1 == Cmd(b, "mksquashfs", ret)
    IN  IF ret # 0 THEN Raise(b1, "SquashfsError") ELSE b1

\* e2fsck(fs): returns the command's status.
e2fsck(b, rc) == Return(Cmd(b, "e2fsck", rc), rc)

\* resize2fs as it would be without its second argument check ("Must specify
\* either a size or minimal"): C16 must tell it from the code.
resize2fs_NoNeitherCheck(b, size, minimal, o) ==
    IF minimal /\ size # None
    THEN Raise(b, "RuntimeError")
    ELSE LET b1 == e2fsck(b, o.fsckPre)
             b2 == Cmd(b1, "e2image", o.e2image)
             b3 == Cmd(b2, "resize2fs", o.resize)
         IN  IF o.resize # 0
             THEN Return(b3, o.resize)
             ELSE LET b4 == e2fsck(b3, o.fsckPost)
                  IN  IF b4.ret # 0
                      THEN Raise(b4, "CreatorError")
                      ELSE Return(b4, 0)

\* resize2fs(fs, size, minimal).  o holds the exit statuses of e2fsck before
\* the resize (dropped), of e2image (dropped), of resize2fs (a nonzero status
\* is returned, nothing is raised) and of e2fsck after it.
resize2fs(b, size, minimal, o) ==
    IF minimal /\ size # None
    THEN Raise(b, "RuntimeError")
    ELSE IF ~minimal /\ size = None
    THEN Raise(b, "RuntimeError")
    ELSE LET b1 == e2fsck(b, o.fsckPre)
             b2 == Cmd(b1, "e2image", o.e2image)
             b3 == Cmd(b2, "resize2fs", o.resize)
         IN  IF o.resize # 0
             THEN Return(b3, o.resize)
             ELSE LET b4 == e2fsck(b3, o.fsckPost)
                  IN  IF b4.ret # 0
                      THEN Raise(b4, "CreatorError")
                      ELSE Return(b4, 0)

----------------------------------------------------------------------------
(* Mount hierarchy.  The Mount object is mnt; its Disk is disks["mdisk"]. *)

\* BindChrootMount.mount
BindChrootMount_mount(b, o) ==
    IF b.mnt.mounted
    THEN b
    ELSE LET b1 == Sys([b EXCEPT !.mountdir = TRUE], "makedirs", 0)
             b2 == Cmd(b1, "mount", o.mount)
         IN  IF o.mount # 0
             THEN Raise(b2, "MountError")
             ELSE [b2 EXCEPT !.mnt.mounted = TRUE, !.kmount = TRUE]

\* BindChrootMount.unmount
BindChrootMount_unmount(b, o) ==
    IF ~b.mnt.mounted
    THEN b
    ELSE LET b1 == Cmd(b, "umount", o.umount)
         IN  IF o.umount # 0
             THEN Raise(b1, "MountError")
             ELSE [b1 EXCEPT !.mnt.mounted = FALSE, !.kmount = FALSE]

\* DiskMount.unmount as it would be if it tested only "not self.mounted"
\* before os.rmdir: C19 must tell it from the code.
DiskMount_unmount_AlwaysRemoves(b, o) ==
    LET b1 == IF b.mnt.mounted
              THEN IF o.umount = 0
                   THEN [Cmd(b, "umount", 0) EXCEPT !.mnt.mounted = FALSE,
                                                    !.kmount = FALSE]
                   ELSE Raise(Cmd(b, "umount", o.umount), "MountError")
              ELSE b
        rc == IF b.mountdir THEN o.rmdir ELSE 1
    IN  IF Ok(b1) /\ ~b1.mnt.mounted
        THEN [Sys(b1, "rmdir", rc) EXCEPT !.mountdir = IF rc = 0 THEN FALSE ELSE @,
                                         !.mnt.rmdir = FALSE]
        ELSE b1

\* DiskMount.unmount: umount when mounted; then, if this object made the
\* mount point and is not mounted, os.rmdir (an OSError is swallowed).
DiskMount_unmount(b, o) ==
    LET b1 == IF b.mnt.mounted
              THEN IF o.umount = 0
                   THEN [Cmd(b, "umount", 0) EXCEPT !.mnt.mounted = FALSE,
                                                    !.kmount = FALSE]
                   ELSE Raise(Cmd(b, "umount", o.umount), "MountError")
              ELSE b
        rc == IF b.mountdir THEN o.rmdir ELSE 1
    IN  IF Ok(b1) /\ b1.mnt.rmdir /\ ~b1.mnt.mounted
        THEN [Sys(b1, "rmdir", rc) EXCEPT !.mountdir = IF rc = 0 THEN FALSE ELSE @,
                                         !.mnt.rmdir = FALSE]
        ELSE b1

\* DiskMount.__create
DiskMount_create(b, o) == Disk_create(b, "mdisk", o.find, o.bind)

\* DiskMount.mount.  The mount command cannot succeed on a device that
\* holds no filesystem.
DiskMount_mount(b, o) ==
    IF b.mnt.mounted
    THEN b
    ELSE LET b1 == IF ~b.mountdir
                   THEN [Sys(b, "makedirs", 0) EXCEPT !.mountdir = TRUE,
                                                     !.mnt.rmdir = b.mnt.rmmountdir]
                   ELSE b
         IN  Then(DiskMount_create(b1, o),
                  LAMBDA b2 :
                      LET rc == IF b2.files["mdisk"].fs THEN o.mount ELSE 1
                          b3 == Cmd(b2, "mount", rc)
                      IN  IF rc # 0
                          THEN Raise(b3, "MountError")
                          ELSE [b3 EXCEPT !.mnt.mounted = TRUE, !.kmount = TRUE])

\* DiskMount.cleanup as it would be without Mount.cleanup(self): C12 must
\* tell it from the code.
DiskMount_cleanup_DiskOnly(b, o) == Disk_cleanup(b, "mdisk", o.detach)

\* DiskMount.cleanup: Mount.cleanup (self.unmount()), then disk.cleanup().
DiskMount_cleanup(b, o) ==
    Then(DiskMount_unmount(b, o), LAMBDA x : Disk_cleanup(x, "mdisk", o.detach))

\* ExtDiskMount.__format_filesystem: mkfs, then tune2fs (status dropped).
ExtDiskMount_format_filesystem(b, o) ==
    LET b1 == Cmd(b, "mkfs", o.mkfs)
    IN  IF o.mkfs # 0
        THEN Raise(b1, "MountError")
        ELSE Cmd([b1 EXCEPT !.files["mdisk"].fs = TRUE], "tune2fs", o.tune)

\* ExtDiskMount.__resize_filesystem(size).  self.disk.expand(size) hands the
\* size to expand's first parameter, create; only a SparseLoopbackDisk has
\* expand, and only a LoopbackDisk has lofile.  What resize2fs returns is
\* dropped.
ExtDiskMount_resize_filesystem(b, size, o) ==
    IF b.disks["mdisk"].kind = "raw" \/ ~b.files["mdisk"].exists
    THEN Raise(b, IF b.disks["mdisk"].kind = "raw" THEN "AttributeError" ELSE "OSError")
    ELSE LET current_size == b.files["mdisk"].len
             sz == IF size = None THEN b.disks["mdisk"].size ELSE size
             b1 == IF sz > current_size
                   THEN IF b.disks["mdisk"].kind = "sparse"
                        THEN SparseLoopbackDisk_expand(b, "mdisk", sz # 0, None)
                        ELSE Raise(b, "AttributeError")
                   ELSE b
         IN  IF sz = current_size
             THEN Return(b, None)
             ELSE Then(Then(b1, LAMBDA x : resize2fs(x, sz, FALSE, o)),
                       LAMBDA x : Return(x, sz))

\* ExtDiskMount.__create as it would be if it looked for the backing file
\* after self.disk.create(): C13 must tell it from the code.
ExtDiskMount_create_LooksAfter(b, o) ==
    Then(Disk_create(b, "mdisk", o.find, o.bind),
         LAMBDA x : IF ~Disk_fixed(x, "mdisk") /\ Disk_exists(x, "mdisk")
                    THEN ExtDiskMount_resize_filesystem(x, None, o)
                    ELSE ExtDiskMount_format_filesystem(x, o))

\* ExtDiskMount.__create
ExtDiskMount_create(b, o) ==
    LET resize == ~Disk_fixed(b, "mdisk") /\ Disk_exists(b, "mdisk")
    IN  Then(Disk_create(b, "mdisk", o.find, o.bind),
             LAMBDA x : IF resize
                        THEN ExtDiskMount_resize_filesystem(x, None, o)
                        ELSE ExtDiskMount_format_filesystem(x, o))

\* ExtDiskMount.mount: self.__create(), then DiskMount.mount(self).
ExtDiskMount_mount(b, o) ==
    Then(ExtDiskMount_create(b, o), LAMBDA x : DiskMount_mount(x, o))

\* What int() raises ValueError on, and int()'s test.
NaI == -1

IsInt(part) == part # NaI

\* A dumpe2fs -h output, as far as __get_size_from_filesystem reads it: <<>>
\* when no line starts with "Block count:", else <<v>> with v what follows
\* the colon, a block count or NaI when int() does not accept it.
DumpOutputs == {<<>>, <<NaI>>} \cup {<<n>> : n \in 1 .. MaxSize}

\* ExtDiskMount.__get_size_from_filesystem: int(parse_field(out, "Block
\* count")) * self.blocksize.
ExtDiskMount_get_size_from_filesystem(b, dump) ==
    LET b1 == Cmd(b, "dumpe2fs", 0)
    IN  IF Len(dump) = 0
        THEN Raise(b1, "KeyError")
        ELSE IF ~IsInt(dump[1])
             THEN Raise(b1, "ValueError")
             ELSE Return(b1, dump[1] * BlockSize)

\* ExtDiskMount.__resize_to_minimal: resize2fs(self.disk.lofile, minimal =
\* True), whose value is dropped, then the size read from the filesystem.  A
\* RawDisk has no lofile.
ExtDiskMount_resize_to_minimal(b, dump, o) ==
    IF b.disks["mdisk"].kind = "raw"
    THEN Raise(b, "AttributeError")
    ELSE Then(resize2fs(b, None, TRUE, o),
              LAMBDA x : ExtDiskMount_get_size_from_filesystem(x, dump))

\* ExtDiskMount.resparse(size): cleanup(), minsize = __resize_to_minimal(),
\* disk.truncate(minsize), __resize_filesystem(size), return minsize.  Only
\* a SparseLoopbackDisk has truncate.  o has
\* the statuses of the first resize2fs call, o2 those of the second.
ExtDiskMount_resparse(b, size, dump, o, o2) ==
    Then(Then(DiskMount_cleanup(b, o),
              LAMBDA x : ExtDiskMount_resize_to_minimal(x, dump, o)),
         LAMBDA x :
             Then(Then(IF x.disks["mdisk"].kind = "sparse"
                       THEN SparseLoopbackDisk_truncate(x, "mdisk", x.ret)
                       ELSE Raise(x, "AttributeError"),
                       LAMBDA y : ExtDiskMount_resize_filesystem(y, size, o2)),
                  LAMBDA y : Return(y, x.ret)))

\* mount() by the Mount's class
Mount_mount(b, o) ==
    CASE b.mnt.cls = "Bind" -> BindChrootMount_mount(b, o)
      [] b.mnt.cls = "Disk" -> DiskMount_mount(b, o)
      [] b.mnt.cls = "Ext" -> ExtDiskMount_mount(b, o)

\* unmount() by the Mount's class; ExtDiskMount inherits DiskMount's.
Mount_unmount(b, o) ==
    IF b.mnt.cls = "Bind" THEN BindChrootMount_unmount(b, o) ELSE DiskMount_unmount(b, o)

----------------------------------------------------------------------------
(* DeviceMapperSnapshot *)

\* DeviceMapperSnapshot.get_path: None (here the empty path) while __name is
\* None, else os.path.join("/dev/mapper", name).
NoPath == <<>>

get_path(b) == IF b.snap.name = None THEN NoPath ELSE <<"/dev/mapper", b.snap.name>>

\* DeviceMapperSnapshot.create.  nm is the value random.randint gives the
\* name; o holds the exit statuses of the commands.  dmsetup create cannot
\* succeed when a node of that name exists.
DeviceMapperSnapshot_create(b, nm, o) ==
    IF b.snap.created
    THEN b
    ELSE LET b1 == Disk_create(b, "img", o.findImg, o.bindImg)
             b2 == IF Ok(b1) THEN Disk_create(b1, "cow", o.findCow, o.bindCow) ELSE b1
         IN  IF ~Ok(b2)
             THEN b2
             ELSE LET rc == IF nm \in b2.dm THEN 1 ELSE o.dmCreate
                      b3 == Cmd([b2 EXCEPT !.snap.name = nm], "dmsetup create", rc)
                  IN  IF rc # 0
                      THEN LET b4 == LoopbackDisk_cleanup(b3, "cow", o.detCow)
                               b5 == LoopbackDisk_cleanup(b4, "img", o.detImg)
                           IN  Raise(b5, "SnapshotError")
                      ELSE [b3 EXCEPT !.dm = @ \cup {nm}, !.made = @ \cup {nm},
                                      !.snap.created = TRUE]

\* DeviceMapperSnapshot.remove as it would be without self.cowloop.cleanup():
\* C4 must tell it from the code.
DeviceMapperSnapshot_remove_KeepsCow(b, ignore_errors, o) ==
    IF ~b.snap.created
    THEN b
    ELSE LET b1 == Cmd(b, "dmsetup remove", o.dmRemove)
             b2 == IF o.dmRemove = 0 THEN [b1 EXCEPT !.dm = @ \ {b.snap.name}] ELSE b1
         IN  IF ~ignore_errors /\ o.dmRemove # 0
             THEN Raise(b2, "SnapshotError")
             ELSE LET b3 == [b2 EXCEPT !.snap = [name |-> None, created |-> FALSE]]
                  IN  LoopbackDisk_cleanup(b3, "img", o.detImg)

\* DeviceMapperSnapshot.remove(ignore_errors).
DeviceMapperSnapshot_remove(b, ignore_errors, o) ==
    IF ~b.snap.created
    THEN b
    ELSE LET b1 == Cmd(b, "dmsetup remove", o.dmRemove)
             b2 == IF o.dmRemove = 0 THEN [b1 EXCEPT !.dm = @ \ {b.snap.name}] ELSE b1
         IN  IF ~ignore_errors /\ o.dmRemove # 0
             THEN Raise(b2, "SnapshotError")
             ELSE LET b3 == [b2 EXCEPT !.snap = [name |-> None, created |-> FALSE]]
                      b4 == LoopbackDisk_cleanup(b3, "cow", o.detCow)
                  IN  LoopbackDisk_cleanup(b4, "img", o.detImg)

\* A dmsetup status output is the sequence of its whitespace-separated
\* tokens (out.split()); a token is the sequence of its parts between
\* slashes (split('/')); a part is a natural number when int() accepts it
\* and NaI when int() raises ValueError.
StatusOutputs ==
    {<<>>,
     << <<0>>, <<8>>, <<NaI>> >>}
    \cup {<< <<0>>, <<8>>, <<NaI>>, <<u, 8>> >> : u \in 0 .. MaxUsed}
    \cup {<< <<0>>, <<8>>, <<NaI>>, <<u>> >> : u \in {NaI, MaxUsed}}
    \cup {<< <<0>>, <<8>>, <<NaI>>, <<NaI, 8>> >>}

\* DeviceMapperSnapshot.get_cow_used as it would be without "* 512": C18 must
\* tell it from the code.
DeviceMapperSnapshot_get_cow_used_Sectors(b, out) ==
    IF ~b.snap.created
    THEN Return(b, 0)
    ELSE LET b1 == Cmd(b, "dmsetup status", 0)
         IN  IF Len(out) < 4
             THEN Raise(b1, "IndexError")
             ELSE IF ~IsInt(out[4][1])
                  THEN Raise(b1, "SnapshotError")
                  ELSE Return(b1, out[4][1])

\* DeviceMapperSnapshot.get_cow_used: int(out.split()[3].split('/')[0]) * 512;
\* only ValueError is caught, an IndexError propagates.
DeviceMapperSnapshot_get_cow_used(b, out) ==
    IF ~b.snap.created
    THEN Return(b, 0)
    ELSE LET b1 == Cmd(b, "dmsetup status", 0)
         IN  IF Len(out) < 4
             THEN Raise(b1, "IndexError")
             ELSE IF ~IsInt(out[4][1])
                  THEN Raise(b1, "SnapshotError")
                  ELSE Return(b1, out[4][1] * SectorSize)


----------------------------------------------------------------------------
(* The snapshot's life: any sequence of create(), remove(), get_cow_used() *)

NoMount == [cls |-> "Disk", mounted |-> FALSE, rmdir |-> FALSE, rmmountdir |-> TRUE]

NoFile == [exists |-> FALSE, len |-> 0, fs |-> FALSE]


\* create_image_minimizer's objects: LoopbackDisk(image, None) and
\* SparseLoopbackDisk(osmin, 64 MiB); the image exists, the COW file does not.
MinimizerDisks ==
    [d \in DiskIds |->
        CASE d = "img" -> [kind |-> "loop", device |-> None, size |-> None]
          [] d = "cow" -> [kind |-> "sparse", device |-> None, size |-> CowSize]
          [] OTHER -> [kind |-> "raw", device |-> RawDev, size |-> None]]

ImageFile == [exists |-> TRUE, len |-> 2 * CowSize, fs |-> TRUE]

InitSnap ==
    /\ disks = MinimizerDisks
    /\ snap = [name |-> None, created |-> FALSE]
    /\ mnt = NoMount
    /\ loops = [l \in Loops |-> Free]
    /\ dm = {}
    /\ files = [d \in DiskIds |-> IF d = "img" THEN ImageFile ELSE NoFile]
    /\ mountdir = FALSE
    /\ kmount = FALSE
    /\ last = [op |-> "init", arg |-> FALSE, exc |-> NoExc, ret |-> None,
               cmds |-> <<>>, bound |-> {}, made |-> {}, orig |-> NoExc,
               preDisks |-> disks, preSnap |-> snap,
               preMnt |-> mnt, preFiles |-> files]

SnapCreate ==
    \E nm \in Names, fi, bi, fc, bc, dc, tc, ti \in RC :
        Commit(DeviceMapperSnapshot_create(Bundle, nm,
                   [AllOk EXCEPT !.findImg = fi, !.bindImg = bi, !.findCow = fc,
                                 !.bindCow = bc, !.dmCreate = dc, !.detCow = tc,
                                 !.detImg = ti]),
               "create", FALSE)

SnapRemove ==
    \E ignore_errors \in BOOLEAN, rm, tc, ti \in RC :
        Commit(DeviceMapperSnapshot_remove(Bundle, ignore_errors,
                   [AllOk EXCEPT !.dmRemove = rm, !.detCow = tc, !.detImg = ti]),
               "remove", ignore_errors)

SnapGetCowUsed ==
    \E out \in StatusOutputs :
        Commit(DeviceMapperSnapshot_get_cow_used(Bundle, out), "get_cow_used", out)

NextSnap == SnapCreate \/ SnapRemove \/ SnapGetCowUsed

SpecSnap == InitSnap /\ [][NextSnap]_vars

----------------------------------------------------------------------------
(* create_image_minimizer *)

\* sys.exc_info()[0] in the finally clause of create_image_minimizer.  The
\* source is Python 2 (except OSError, (err, msg); 64L): there sys.exc_info()
\* gives the exception being handled by an except clause of this frame or of
\* a calling frame.  The function has no except clause, and entering a
\* finally clause does not publish the propagating exception, so the value
\* is the exception the caller is handling, if any.
exc_info(callerHandling, propagating) == callerHandling

\* create_image_minimizer as it would be with cowloop.truncate(cow_used)
\* inside the try block, before the snapshot is removed: C11 must tell it from
\* the code.
create_image_minimizer_TruncatesEarly(b, minimal_size, nm, out, callerHandling, o) ==
    LET b0 == [b EXCEPT !.disks["img"] = MinimizerDisks["img"],
                        !.disks["cow"] = MinimizerDisks["cow"],
                        !.snap = [name |-> None, created |-> FALSE]]
        try == Then(Then(Then(DeviceMapperSnapshot_create(b0, nm, o),
                              LAMBDA x : resize2fs(x, minimal_size, FALSE, o)),
                         LAMBDA x : DeviceMapperSnapshot_get_cow_used(x, out)),
                    LAMBDA x : SparseLoopbackDisk_truncate(x, "cow", x.ret))
        finally(b3) ==
            With(DeviceMapperSnapshot_remove(
                     [b3 EXCEPT !.exc = NoExc, !.orig = b3.exc],
                     exc_info(callerHandling, b3.exc) # FALSE, o),
                 LAMBDA b4 : IF Ok(b4) THEN [b4 EXCEPT !.exc = b3.exc] ELSE b4)
        rest(b5) ==
            Then(mksquashfs(b5, o.squash),
                 LAMBDA x : [Sys(x, "unlink", 0) EXCEPT !.files["cow"] = NoFile,
                                                           !.ret = None])
    IN  Then(With(try, finally), rest)

\* create_image_minimizer(path, image, minimal_size).  nm is the random part
\* of the snapshot's name, out the output of dmsetup status, o the outcomes
\* of the commands, callerHandling whether the caller runs it inside an
\* except clause.
create_image_minimizer(b, minimal_size, nm, out, callerHandling, o) ==
    LET b0 == [b EXCEPT !.disks["img"] = MinimizerDisks["img"],
                        !.disks["cow"] = MinimizerDisks["cow"],
                        !.snap = [name |-> None, created |-> FALSE]]
        \* try: snapshot.create(); resize2fs(snapshot.path, minimal_size);
        \*      cow_used = snapshot.get_cow_used()
        try == Then(Then(DeviceMapperSnapshot_create(b0, nm, o),
                         LAMBDA x : resize2fs(x, minimal_size, FALSE, o)),
                    LAMBDA x : DeviceMapperSnapshot_get_cow_used(x, out))
        \* finally: snapshot.remove(ignore_errors = (not sys.exc_info()[0] is None));
        \* an exception of the finally clause replaces the propagating one
        finally(b3) ==
            With(DeviceMapperSnapshot_remove(
                     [b3 EXCEPT !.exc = NoExc, !.orig = b3.exc],
                     exc_info(callerHandling, b3.exc) # FALSE, o),
                 LAMBDA b4 : IF Ok(b4) THEN [b4 EXCEPT !.exc = b3.exc] ELSE b4)
        \* cowloop.truncate(cow_used); mksquashfs(cowloop.lofile, path);
        \* os.unlink(cowloop.lofile)
        rest(b5) ==
            Then(Then(SparseLoopbackDisk_truncate(b5, "cow", b5.ret),
                      LAMBDA x : mksquashfs(x, o.squash)),
                 LAMBDA x : [Sys(x, "unlink", 0) EXCEPT !.files["cow"] = NoFile,
                                                           !.ret = None])
    IN  Then(With(try, finally), rest)

\* The exit statuses of the commands one run may issue.
MinOutcomeSpace ==
    [findImg : RC, bindImg : RC, findCow : RC, bindCow : RC,
     dmCreate : RC, dmRemove : RC, detCow : RC, detImg : RC,
     fsckPre : RC, e2image : RC, resize : RC, fsckPost : RC, squash : RC]

\* The exit status of a command that cannot run after the statuses before it
\* is immaterial and is fixed at 0, so that each run is drawn once: a failed
\* loop setup ends the run with no further command; a failed dmsetup create
\* leaves only the two detaches; after a failed resize2fs there is no second
\* e2fsck; and mksquashfs does not run after a CreatorError.
Reachable(o) ==
    LET AllZero(S) == \A f \in S : o[f] = 0
        afterLoops == {"dmCreate", "dmRemove", "detCow", "detImg", "fsckPre",
                       "e2image", "resize", "fsckPost", "squash"}
    IN  /\ o.findImg # 0 => AllZero({"bindImg", "findCow", "bindCow"} \cup afterLoops)
        /\ o.bindImg # 0 => AllZero({"findCow", "bindCow"} \cup afterLoops)
        /\ o.findCow # 0 => AllZero({"bindCow"} \cup afterLoops)
        /\ o.bindCow # 0 => AllZero(afterLoops)
        /\ o.dmCreate # 0 => AllZero(afterLoops \ {"dmCreate", "detCow", "detImg"})
        /\ o.resize # 0 => o.fsckPost = 0
        /\ o.fsckPost # 0 => o.squash = 0

MinOutcomes == {o \in MinOutcomeSpace : Reachable(o)}

\* run's inputs: minimal_size is None or a size
MinimalSizes == {None, CowSize}

\* Before a run other processes may hold loop devices and device-mapper
\* nodes, and an earlier run may have left its COW file behind.
OtherUser == "other"

LeftOverCow == [exists |-> TRUE, len |-> CowSize + 1, fs |-> FALSE]

InitMin ==
    /\ disks = MinimizerDisks
    /\ snap = [name |-> None, created |-> FALSE]
    /\ mnt = NoMount
    /\ loops \in [Loops -> {Free, OtherUser}]
    /\ dm \in SUBSET Names
    /\ \E cow \in {NoFile, LeftOverCow} :
          files = [d \in DiskIds |->
                      IF d = "img" THEN ImageFile ELSE IF d = "cow" THEN cow ELSE NoFile]
    /\ mountdir = FALSE
    /\ kmount = FALSE
    /\ last = [op |-> "init", arg |-> FALSE, exc |-> NoExc, ret |-> None,
               cmds |-> <<>>, bound |-> {}, made |-> {}, orig |-> NoExc,
               preDisks |-> disks, preSnap |-> snap,
               preMnt |-> mnt, preFiles |-> files]

\* One run of create_image_minimizer.
Minimize ==
    /\ last.op = "init"
    /\ \E minimal_size \in MinimalSizes, nm \in Names, out \in StatusOutputs,
          callerHandling \in BOOLEAN, o \in MinOutcomes :
          Commit(create_image_minimizer(Bundle, minimal_size, nm, out,
                                        callerHandling, o),
                 "create_image_minimizer", callerHandling)

NextMin == Minimize

SpecMin == InitMin /\ [][NextMin]_vars

----------------------------------------------------------------------------
(* A Mount's life: any sequence of mount(), unmount() and cleanup() *)

\* The size the mounted Disk is declared with.
DiskSize == MaxSize - 1

\* The Disk of the Mount, by class: RawDisk(size, device),
\* LoopbackDisk(lofile, size), SparseLoopbackDisk(lofile, size).
MountDisk(kind) ==
    [kind |-> kind, device |-> IF kind = "raw" THEN RawDev ELSE None,
     size |-> DiskSize]

\* The backing file before the first call: none, or an image holding a
\* filesystem, shorter than, as long as or longer than the declared size.  A
\* raw device is there, with or without a filesystem.
BackingFiles(kind) ==
    IF kind = "raw"
    THEN {[exists |-> TRUE, len |-> DiskSize, fs |-> f] : f \in BOOLEAN}
    ELSE {NoFile} \cup {[exists |-> TRUE, len |-> n, fs |-> TRUE] :
                           n \in (DiskSize - 1) .. (DiskSize + 1)}

InitMount ==
    /\ \E cls \in {"Bind", "Disk", "Ext"}, rmmountdir \in BOOLEAN :
          mnt = [cls |-> cls, mounted |-> FALSE, rmdir |-> FALSE,
                 rmmountdir |-> IF cls = "Bind" THEN TRUE ELSE rmmountdir]
    /\ \E kind \in Kinds, f \in UNION {BackingFiles(k) : k \in Kinds} :
          /\ mnt.cls = "Bind" => kind = "raw" /\ f.fs
          /\ f \in BackingFiles(kind)
          /\ disks = [d \in DiskIds |->
                         IF d = "mdisk" THEN MountDisk(kind) ELSE MinimizerDisks[d]]
          /\ files = [d \in DiskIds |-> IF d = "mdisk" THEN f ELSE NoFile]
    /\ snap = [name |-> None, created |-> FALSE]
    /\ loops = [l \in Loops |-> Free]
    /\ dm = {}
    /\ mountdir \in BOOLEAN
    /\ kmount = FALSE
    /\ last = [op |-> "init", arg |-> FALSE, exc |-> NoExc, ret |-> None,
               cmds |-> <<>>, bound |-> {}, made |-> {}, orig |-> NoExc,
               preDisks |-> disks, preSnap |-> snap,
               preMnt |-> mnt, preFiles |-> files]

DoMount ==
    \E find, bind, mkfs, tune, fsckPre, e2image, resize, fsckPost, mount \in RC :
        Commit(Mount_mount(Bundle,
                   [AllOk EXCEPT !.find = find, !.bind = bind, !.mkfs = mkfs,
                                 !.tune = tune, !.fsckPre = fsckPre,
                                 !.e2image = e2image, !.resize = resize,
                                 !.fsckPost = fsckPost, !.mount = mount]),
               "mount", FALSE)

DoUnmount ==
    \E umount, rmdir \in RC :
        Commit(Mount_unmount(Bundle, [AllOk EXCEPT !.umount = umount, !.rmdir = rmdir]),
               "unmount", FALSE)

\* cleanup() of a DiskMount or ExtDiskMount (BindChrootMount has none)
DoCleanup ==
    /\ mnt.cls # "Bind"
    /\ \E umount, rmdir, detach \in RC :
          Commit(DiskMount_cleanup(Bundle,
                     [AllOk EXCEPT !.umount = umount, !.rmdir = rmdir,
                                   !.detach = detach]),
                 "cleanup", FALSE)

NextMount == DoMount \/ DoUnmount \/ DoCleanup

SpecMount == InitMount /\ [][NextMount]_vars

----------------------------------------------------------------------------
(* An ExtDiskMount's life up to a resparse(): constructed, mounted or not,
   then resparsed *)

\* The sizes a caller passes to resparse: unset, or a size up to one beyond
\* what expanding the file to the declared size gives.
ResparseSizes == {None} \cup (1 .. (MaxSize + 1))

\* The exit statuses of the commands of one resparse: first of the cleanup
\* and the minimal resize, second of the resize that follows the truncate.
\* The status of a command that cannot run after the statuses before it is
\* fixed at 0: a failed umount ends the call, a failed resize2fs has no second
\* e2fsck, and a failed second e2fsck of the minimal resize ends the call.
\* The statuses of e2fsck before a resize and of e2image, which resize2fs()
\* drops, are drawn once for both resizes; os.rmdir succeeds when the mount
\* point is there.
ResparseOutcomes ==
    {oo \in [first : [umount : RC, detach : RC, fsckPre : RC,
                      e2image : RC, resize : RC, fsckPost : RC],
             second : [resize : RC, fsckPost : RC]] :
        /\ oo.first.umount # 0 =>
              \A f \in DOMAIN oo.first : f # "umount" => oo.first[f] = 0
        /\ oo.first.resize # 0 => oo.first.fsckPost = 0
        /\ (oo.first.umount # 0 \/ oo.first.fsckPost # 0) =>
              \A f \in DOMAIN oo.second : oo.second[f] = 0
        /\ oo.second.resize # 0 => oo.second.fsckPost = 0}

InitExt ==
    /\ \E rmmountdir \in BOOLEAN :
          mnt = [cls |-> "Ext", mounted |-> FALSE, rmdir |-> FALSE,
                 rmmountdir |-> rmmountdir]
    /\ \E kind \in Kinds, f \in UNION {BackingFiles(k) : k \in Kinds} :
          /\ f \in BackingFiles(kind)
          /\ disks = [d \in DiskIds |->
                         IF d = "mdisk" THEN MountDisk(kind) ELSE MinimizerDisks[d]]
          /\ files = [d \in DiskIds |-> IF d = "mdisk" THEN f ELSE NoFile]
    /\ snap = [name |-> None, created |-> FALSE]
    /\ loops = [l \in Loops |-> Free]
    /\ dm = {}
    /\ mountdir = FALSE
    /\ kmount = FALSE
    /\ last = [op |-> "init", arg |-> FALSE, exc |-> NoExc, ret |-> None,
               cmds |-> <<>>, bound |-> {}, made |-> {}, orig |-> NoExc,
               preDisks |-> disks, preSnap |-> snap,
               preMnt |-> mnt, preFiles |-> files]

\* mount() of the ExtDiskMount, before any resparse
ExtMount == last.op = "init" /\ DoMount

\* resparse(size) of an ExtDiskMount
DoResparse ==
    /\ last.op # "resparse"
    /\ \E size \in ResparseSizes, dump \in DumpOutputs, oo \in ResparseOutcomes :
        Commit(ExtDiskMount_resparse(Bundle, size, dump,
                   [AllOk EXCEPT !.umount = oo.first.umount,
                                 !.detach = oo.first.detach,
                                 !.fsckPre = oo.first.fsckPre,
                                 !.e2image = oo.first.e2image,
                                 !.resize = oo.first.resize,
                                 !.fsckPost = oo.first.fsckPost],
                   [AllOk EXCEPT !.fsckPre = oo.first.fsckPre,
                                 !.e2image = oo.first.e2image,
                                 !.resize = oo.second.resize,
                                 !.fsckPost = oo.second.fsckPost]),
               "resparse", size)

NextExt == ExtMount \/ DoResparse

SpecExt == InitExt /\ [][NextExt]_vars

----------------------------------------------------------------------------
(* Calls of resize2fs(fs, size, minimal) on a Disk's backing file *)

\* resize2fs(fs, size, minimal) for every combination of its arguments
DoResize2fs ==
    \E size \in {None} \cup (1 .. MaxSize), minimal \in BOOLEAN,
       fsckPre, e2image, resize, fsckPost \in RC :
        Commit(resize2fs(Bundle, size, minimal,
                   [AllOk EXCEPT !.fsckPre = fsckPre, !.e2image = e2image,
                                 !.resize = resize, !.fsckPost = fsckPost]),
               "resize2fs", <<size, minimal>>)

NextResize == DoResize2fs

----------------------------------------------------------------------------
(* A Disk's life: any sequence of create(), cleanup(), expand(), truncate() *)

InitDisk ==
    /\ \E kind \in Kinds, f \in UNION {BackingFiles(k) : k \in Kinds} :
          /\ f \in BackingFiles(kind)
          /\ disks = [d \in DiskIds |->
                         IF d = "mdisk" THEN MountDisk(kind) ELSE MinimizerDisks[d]]
          /\ files = [d \in DiskIds |-> IF d = "mdisk" THEN f ELSE NoFile]
    /\ mnt = NoMount
    /\ snap = [name |-> None, created |-> FALSE]
    /\ loops \in [Loops -> {Free, OtherUser}]
    /\ dm = {}
    /\ mountdir = FALSE
    /\ kmount = FALSE
    /\ last = [op |-> "init", arg |-> FALSE, exc |-> NoExc, ret |-> None,
               cmds |-> <<>>, bound |-> {}, made |-> {}, orig |-> NoExc,
               preDisks |-> disks, preSnap |-> snap,
               preMnt |-> mnt, preFiles |-> files]

DiskCreate ==
    \E find, bind \in RC :
        Commit(Disk_create(Bundle, "mdisk", find, bind), "create", FALSE)

DiskCleanup ==
    \E detach \in RC :
        Commit(Disk_cleanup(Bundle, "mdisk", detach), "cleanup", FALSE)

\* expand(create, size) of a SparseLoopbackDisk
DiskExpand ==
    /\ disks["mdisk"].kind = "sparse"
    /\ \E create \in BOOLEAN, size \in {None} \cup (1 .. MaxSize) :
          Commit(SparseLoopbackDisk_expand(Bundle, "mdisk", create, size),
                 "expand", create)

\* truncate(size) of a SparseLoopbackDisk
DiskTruncate ==
    /\ disks["mdisk"].kind = "sparse"
    /\ \E size \in {None} \cup (1 .. MaxSize) :
          Commit(SparseLoopbackDisk_truncate(Bundle, "mdisk", size),
                 "truncate", FALSE)

NextDisk == DiskCreate \/ DiskCleanup \/ DiskExpand \/ DiskTruncate

SpecDisk == InitDisk /\ [][NextDisk]_vars

SpecResize == InitDisk /\ [][NextResize]_vars

----------------------------------------------------------------------------
(* Claims about DeviceMapperSnapshot, under SpecSnap *)

BothDisksReleased == disks["img"].device = None /\ disks["cow"].device = None

SnapshotReset == snap.name = None /\ ~snap.created

\* C2: whenever DeviceMapperSnapshot.create() fails, at whichever step, both
\* backing Disks end with their device unset, the snapshot is not created and
\* no partial state of the attempt (a name) survives.
C2_CreateFailureLeavesNothing ==
    (last.op = "create" /\ last.exc # NoExc) =>
        (BothDisksReleased /\ SnapshotReset)

\* C3: in every state reachable by create(), remove() and get_cow_used()
\* calls, the snapshot's path is defined if and only if it is created.
C3_PathIffCreated == (get_path(Bundle) # NoPath) <=> snap.created

\* A remove() that found the snapshot created, and so ran dmsetup remove.
RemoveAttempted ==
    /\ last.op = "remove"
    /\ last.preSnap.created
    /\ Issued(last.cmds, "dmsetup remove") # {}

\* C4 as claimed: every remove() that issues dmsetup remove, for either
\* value of ignore_errors and whether the command succeeds or fails, resets
\* the name and created state and releases both backing Disks.
C4_RemoveAlwaysResets ==
    RemoveAttempted => (SnapshotReset /\ BothDisksReleased)

\* C4 as amended: a remove() that issues dmsetup remove resets the name and
\* created state and releases both backing Disks exactly when ignore_errors
\* is true or the command succeeds; when ignore_errors is false and the
\* command fails it raises SnapshotError and leaves the name, the created
\* state and both Disks as they were.
C4_RemoveResetsUnlessRaised ==
    RemoveAttempted =>
        IF last.arg \/ Failed(last.cmds, "dmsetup remove") = {}
        THEN last.exc = NoExc /\ SnapshotReset /\ BothDisksReleased
        ELSE /\ last.exc = "SnapshotError"
             /\ snap = last.preSnap
             /\ disks = last.preDisks

\* C4's case: the removal command failed, the error was ignored, and the
\* snapshot and its Disks were reset all the same.
C4_Witness ==
    /\ RemoveAttempted
    /\ last.arg
    /\ Failed(last.cmds, "dmsetup remove") # {}
    /\ last.preDisks["img"].device # None
    /\ last.preDisks["cow"].device # None
    /\ SnapshotReset /\ BothDisksReleased

\* C5: remove(ignore_errors = True) never raises, in any reachable state and
\* even when dmsetup remove fails, and after it both backing Disks are
\* released and the snapshot is not created.
C5_RemoveIgnoringErrors ==
    (last.op = "remove" /\ last.arg) =>
        (last.exc = NoExc /\ BothDisksReleased /\ ~snap.created)

\* A get_cow_used() on a created snapshot; last.arg is the output of dmsetup
\* status it read.
CowUsedRead == last.op = "get_cow_used" /\ last.preSnap.created

\* C17: get_cow_used() on a created snapshot raises SnapshotError for every
\* dmsetup status output whose fourth token is missing or does not start
\* with an integer used count, and no other kind of error escapes.  (A fourth
\* token that is an integer with no slash is not held against the claim.)
C17_ParseFailureIsSnapshotError ==
    CowUsedRead =>
        /\ last.exc \in {NoExc, "SnapshotError"}
        /\ (Len(last.arg) < 4 \/ ~IsInt(last.arg[4][1])) => last.exc = "SnapshotError"

\* C18: get_cow_used() returns 0 without querying device-mapper when the
\* snapshot is not created, and otherwise returns used * 512, used being the
\* integer before the slash in the fourth token of the status line.
C18_CowUsedValue ==
    (last.op = "get_cow_used" /\ last.exc = NoExc) =>
        IF ~last.preSnap.created
        THEN last.ret = 0 /\ last.cmds = <<>>
        ELSE /\ Issued(last.cmds, "dmsetup status") # {}
             /\ Len(last.arg) >= 4
             /\ last.ret = last.arg[4][1] * 512

\* C18's case: a created snapshot whose status line reports MaxUsed sectors
\* of some total.
C18_Witness ==
    /\ CowUsedRead
    /\ Len(last.arg) >= 4
    /\ last.arg[4] = <<MaxUsed, 8>>
    /\ last.ret = MaxUsed * 512

----------------------------------------------------------------------------
(* Claims about Mount objects, under SpecMount *)

\* The call changed neither the Disk, nor the backing file, nor whether the
\* object is mounted.
MountStateKept ==
    /\ mnt.mounted = last.preMnt.mounted
    /\ disks = last.preDisks
    /\ files = last.preFiles

\* C6: mount() and unmount() are idempotent for every Mount subtype: mount()
\* on a mounted object, and unmount() on an unmounted one, invoke no external
\* command and leave the object's state and the backing file unchanged.  (The
\* deferred removal of a mount point the object made is not counted as a
\* change of state.)
C6_MountUnmountIdempotent ==
    /\ (last.op = "mount" /\ last.preMnt.mounted)
          => External(last.cmds) = {} /\ MountStateKept
    /\ (last.op = "unmount" /\ ~last.preMnt.mounted)
          => External(last.cmds) = {} /\ MountStateKept

\* C12 as claimed: after any call to cleanup() on a DiskMount or
\* ExtDiskMount, whatever the unmount command returns, the object is not
\* mounted.
C12_CleanupImpliesUnmounted ==
    last.op = "cleanup" => ~mnt.mounted

\* C12 as amended: a cleanup() whose unmount command does not fail returns
\* with the object not mounted and the Disk released; a cleanup() whose
\* unmount command exits nonzero raises MountError and leaves the object
\* mounted and the Disk as it was.
C12_CleanupUnmountsUnlessRaised ==
    last.op = "cleanup" =>
        IF Failed(last.cmds, "umount") = {}
        THEN /\ last.exc = NoExc
             /\ ~mnt.mounted /\ ~kmount
             /\ Disk_fixed(Bundle, "mdisk") \/ disks["mdisk"].device = None
        ELSE /\ last.exc = "MountError"
             /\ mnt.mounted /\ kmount
             /\ disks = last.preDisks

\* C12's case: cleanup() of a mounted object over a loop-backed Disk, whose
\* unmount command succeeded.
C12_Witness ==
    /\ last.op = "cleanup"
    /\ last.preMnt.mounted
    /\ last.preDisks["mdisk"].device \in Loops
    /\ Issued(last.cmds, "umount") # {}
    /\ ~mnt.mounted

\* A mount() of an ExtDiskMount: the call that runs its creation step.
ExtCreateRan == last.op = "mount" /\ mnt.cls = "Ext"

\* The Disk's create() of the call succeeded.
DiskCreateWorked ==
    Failed(last.cmds, "losetup -f") = {} /\ Failed(last.cmds, "losetup") = {}

\* C13: ExtDiskMount's creation step resizes the filesystem, and never runs
\* mkfs, exactly when the Disk is not fixed and its backing file existed
\* before the step (before the Disk's create() ran); in every other case it
\* formats and does not resize.  The resize step runs resize2fs unless the
\* file already has the declared size or the step raises.
C13_ResizeOrFormat ==
    ExtCreateRan =>
        IF last.preDisks["mdisk"].kind # "raw" /\ last.preFiles["mdisk"].exists
        THEN /\ Issued(last.cmds, "mkfs") = {}
             /\ DiskCreateWorked =>
                   \/ Issued(last.cmds, "resize2fs") # {}
                   \/ files["mdisk"].len = disks["mdisk"].size
                   \/ last.exc # NoExc
        ELSE /\ Issued(last.cmds, "resize2fs") = {}
             /\ Issued(last.cmds, "e2fsck") = {}
             /\ DiskCreateWorked => Issued(last.cmds, "mkfs") # {}

\* C13's case: the sparse backing file did not exist before the step, the
\* Disk's create() made it, and the step formatted it.
C13_Witness ==
    /\ ExtCreateRan
    /\ last.preDisks["mdisk"].kind = "sparse"
    /\ ~last.preFiles["mdisk"].exists
    /\ files["mdisk"].exists
    /\ Issued(last.cmds, "mkfs") # {}
    /\ Issued(last.cmds, "resize2fs") = {}

\* The call removed the mount point directory (its os.rmdir succeeded).
MountPointRemoved == \E i \in Issued(last.cmds, "rmdir") : last.cmds[i].rc = 0

\* C19: across any sequence of DiskMount mount(), unmount() and cleanup()
\* calls, the mount point directory is removed only if this object created it
\* during mount() with rmmountdir requested, and only while the object is not
\* mounted; a directory that existed before mount() is never removed, and
\* none is removed after an unmount command that failed.  The object marks
\* the directory as its own (rmdir) only in a mount() that made it.
C19_MountPointRemoval ==
    mnt.cls # "Bind" =>
        /\ MountPointRemoved =>
              /\ last.op \in {"unmount", "cleanup"}
              /\ last.preMnt.rmdir /\ mnt.rmmountdir
              /\ ~mnt.mounted /\ ~kmount
              /\ Failed(last.cmds, "umount") = {}
              /\ ~mountdir
        /\ (mnt.rmdir /\ ~last.preMnt.rmdir) =>
              /\ last.op = "mount"
              /\ Issued(last.cmds, "makedirs") # {}
              /\ mnt.rmmountdir
        /\ (last.op = "mount" /\ Issued(last.cmds, "makedirs") = {}) =>
              mnt.rmdir = last.preMnt.rmdir
        /\ Failed(last.cmds, "umount") # {} => Issued(last.cmds, "rmdir") = {}
        /\ mnt.rmdir => mountdir

\* C19's case: an unmount() of a mounted object that removed the mount point
\* the object had made.
C19_Witness ==
    /\ mnt.cls = "Disk"
    /\ last.op = "unmount"
    /\ last.preMnt.mounted /\ last.preMnt.rmdir
    /\ MountPointRemoved
    /\ ~mountdir

\* C20: an ExtDiskMount never issues the mount command for a backing file
\* that holds no filesystem: a file the object's Disk created itself is
\* formatted (mkfs succeeded) before it is mounted, also when the mount() is a
\* retry after a first mount() that created the sparse file and then failed
\* at loop allocation or binding.
C20_FormatsBeforeMount ==
    (mnt.cls = "Ext" /\ last.op = "mount" /\ Issued(last.cmds, "mount") # {}) =>
        files["mdisk"].fs

----------------------------------------------------------------------------
(* Claims about ExtDiskMount.resparse, under SpecExt *)

\* A resparse(size) of an ExtDiskMount over a sparse file that returned; its
\* value, last.ret, is the minimal size the file was truncated to.
ResparseReturned ==
    /\ last.op = "resparse"
    /\ last.exc = NoExc
    /\ disks["mdisk"].kind = "sparse"

\* C14: when the resize step is given a target size larger than the current
\* length of the backing file, the sparse file is first grown to at least the
\* target size, and only then is resize2fs run on it.
C14_GrowsBeforeResize ==
    (ResparseReturned /\ last.arg # None /\ last.arg > last.ret) =>
        /\ \E e \in Issued(last.cmds, "expand") :
              /\ \A t \in Issued(last.cmds, "truncate") : t < e
              /\ \E r \in Issued(last.cmds, "resize2fs") : e < r
        /\ files["mdisk"].len >= last.arg

\* C15: resparse(size) performs in this order cleanup() (unmount, release of
\* the loop device), a minimal resize, the truncate of the backing file to the
\* minimal byte count, then a resize back up to size; when size is unset no
\* resize follows the truncate and the filesystem is left at its minimal
\* size; it returns the minimal size.
C15_ResparseOrder ==
    ResparseReturned =>
        /\ ~mnt.mounted /\ disks["mdisk"].device = None
        /\ \A c \in Issued(last.cmds, "umount") \cup Issued(last.cmds, "losetup -d"),
              r \in Issued(last.cmds, "resize2fs") : c < r
        /\ \E r \in Issued(last.cmds, "resize2fs"), t \in Issued(last.cmds, "truncate") :
              r < t
        /\ Cardinality(Issued(last.cmds, "truncate")) = 1
        /\ last.arg # None =>
              /\ Cardinality(Issued(last.cmds, "resize2fs")) <= 2
              /\ last.arg <= last.ret => files["mdisk"].len = last.ret
        /\ last.arg = None =>
              /\ \A r \in Issued(last.cmds, "resize2fs"),
                    t \in Issued(last.cmds, "truncate") : r < t
              /\ files["mdisk"].len = last.ret

----------------------------------------------------------------------------
(* Claims about resize2fs, under SpecResize *)

\* The call gave resize2fs both a size and minimal, or neither.
BadResizeArguments ==
    \/ last.arg[2] /\ last.arg[1] # None
    \/ ~last.arg[2] /\ last.arg[1] = None

\* C16: resize2fs with both a size and minimal set, or with neither, raises
\* a configuration error at once and runs no external command; with exactly
\* one of them set, the filesystem check runs before the resize tool.
C16_ResizeArguments ==
    last.op = "resize2fs" =>
        IF BadResizeArguments
        THEN last.exc = "RuntimeError" /\ last.cmds = <<>>
        ELSE /\ last.exc # "RuntimeError"
             /\ Issued(last.cmds, "resize2fs") # {}
             /\ \A r \in Issued(last.cmds, "resize2fs") :
                   \E f \in Issued(last.cmds, "e2fsck") : f < r

\* C16's case: a call with neither a size nor minimal, refused.
C16_Witness ==
    /\ last.op = "resize2fs"
    /\ last.arg = <<None, FALSE>>
    /\ last.exc = "RuntimeError"
    /\ last.cmds = <<>>

----------------------------------------------------------------------------
(* Claims about Disk objects, under SpecDisk *)

\* C7: create() and cleanup() of a Disk are idempotent: a second create()
\* after a successful one allocates no further loop device and leaves device
\* unchanged; a second cleanup() issues no detach command; cleanup() before
\* any create() issues no command and changes nothing.
C7_DiskCreateCleanupIdempotent ==
    /\ (last.op = "create" /\ last.preDisks["mdisk"].device # None)
          => /\ last.bound = {}
             /\ Issued(last.cmds, "losetup -f") = {}
             /\ Issued(last.cmds, "losetup") = {}
             /\ disks["mdisk"].device = last.preDisks["mdisk"].device
             /\ last.exc = NoExc
    /\ (last.op = "cleanup" /\ (last.preDisks["mdisk"].device = None
                               \/ disks["mdisk"].kind = "raw"))
          => /\ last.cmds = <<>>
             /\ disks = last.preDisks
             /\ files = last.preFiles
             /\ last.exc = NoExc

\* A second create() on a loop-backed Disk that holds a device.
C7_Witness ==
    /\ last.op = "create"
    /\ disks["mdisk"].kind = "sparse"
    /\ last.preDisks["mdisk"].device \in Loops
    /\ disks["mdisk"].device = last.preDisks["mdisk"].device

----------------------------------------------------------------------------
(* Claims about create_image_minimizer, under SpecMin *)

MinimizerRan == last.op = "create_image_minimizer"

\* The run went on to truncate the COW file or to compress it after its
\* i-th step.
WentOnAfter(i) ==
    \E j \in (i + 1) .. Len(last.cmds) : last.cmds[j].cmd \in {"truncate", "mksquashfs"}

\* No command of the teardown that ran (dmsetup remove, losetup -d) failed.
TeardownWorked ==
    Failed(last.cmds, "dmsetup remove") = {} /\ Failed(last.cmds, "losetup -d") = {}

\* C1: for every combination of outcomes of the external commands, if
\* create_image_minimizer fails at a step before the snapshot removal (an
\* exception propagates into its finally clause), then when it exits no loop
\* device it bound and no device-mapper node it made is still allocated.
\* The claim is read in its favour: only runs in which every teardown
\* command that was issued succeeded are held against it.
C1_NothingLeftAllocated ==
    (MinimizerRan /\ last.orig # NoExc /\ TeardownWorked) =>
        /\ \A l \in last.bound : loops[l] = Free
        /\ last.made \cap dm = {}

\* C8: in create_image_minimizer, when an exception is propagating from the
\* snapshot creation, the resize or the COW-usage read, a failure of the
\* snapshot removal is ignored and the caller sees the original exception;
\* when none is propagating, a failure of the removal is raised as a
\* SnapshotError and truncate and compress are not performed.
C8_RemovalFailureHandling ==
    MinimizerRan =>
        /\ last.orig # NoExc => last.exc = last.orig
        /\ (last.orig = NoExc /\ Failed(last.cmds, "dmsetup remove") # {}) =>
               (last.exc = "SnapshotError" /\ ~WentOnAfter(0))

\* C9: if an external tool run by create_image_minimizer exits nonzero (other
\* than the filesystem check), the minimization fails.  Stated for the tool
\* the claim singles out: when resize2fs exits nonzero, the run fails and
\* does not go on to truncate the COW file and compress it.
C9_ResizeFailureIsFatal ==
    MinimizerRan =>
        \A i \in Failed(last.cmds, "resize2fs") :
            last.exc # NoExc /\ ~WentOnAfter(i)

\* C10: after create_image_minimizer ends, whether it succeeded or failed
\* partway, the temporary COW file it wrote no longer exists.
C10_CowFileGone ==
    (MinimizerRan /\ Issued(last.cmds, "expand") # {}) => ~files["cow"].exists

\* The steps of a run, in the order the claim gives them.
MinimizerSteps ==
    <<"dmsetup create", "resize2fs", "dmsetup status", "dmsetup remove",
      "truncate", "mksquashfs", "unlink">>

\* Every command named c was issued before every command named d.
Before(c, d) ==
    \A i \in Issued(last.cmds, c), j \in Issued(last.cmds, d) : i < j

\* C11: in every run of create_image_minimizer the steps occur in strict
\* order (snapshot create, resize, read of COW usage, snapshot removal,
\* truncate to the used byte count, compression, deletion), each at most
\* once; the COW file is truncated only after the snapshot object was removed
\* and its COW Disk released, compressed only after the truncate, and deleted
\* only after the compression succeeded.
C11_StepsInOrder ==
    MinimizerRan =>
        /\ \A m, n \in 1 .. Len(MinimizerSteps) :
              m < n => Before(MinimizerSteps[m], MinimizerSteps[n])
        /\ \A n \in 1 .. Len(MinimizerSteps) :
              Cardinality(Issued(last.cmds, MinimizerSteps[n])) <= 1
        /\ \A t \in Issued(last.cmds, "truncate") :
              /\ \A n \in 1 .. 4 : Issued(last.cmds, MinimizerSteps[n]) # {}
              /\ \E i, j \in Issued(last.cmds, "losetup -d") : i < j /\ j < t
              /\ ~snap.created /\ disks["cow"].device = None
        /\ Issued(last.cmds, "mksquashfs") # {} => Issued(last.cmds, "truncate") # {}
        /\ Failed(last.cmds, "mksquashfs") # {} =>
              /\ files["cow"].len = last.ret
              /\ last.ret \in {u * SectorSize : u \in 0 .. MaxUsed}
        /\ Issued(last.cmds, "unlink") # {} =>
              /\ Issued(last.cmds, "mksquashfs") # {}
              /\ Failed(last.cmds, "mksquashfs") = {}

\* A run that went through all seven steps.
C11_Witness ==
    /\ MinimizerRan
    /\ last.exc = NoExc
    /\ \A n \in 1 .. Len(MinimizerSteps) : Issued(last.cmds, MinimizerSteps[n]) # {}
    /\ ~files["cow"].exists

====
